---- MODULE Spec2Model ----
(***************************************************************************)
(* Visitor-pattern demo (src/src/main.rs).                                 *)
(*                                                                         *)
(* A parse tree of Chest / Pile / Apple / Banana nodes is traversed by two *)
(* visitors, InventoryCounter and OnlyCheckChests.  The recursive calls of *)
(* walk_things, walk_chest and the visit_* handlers are modelled by an     *)
(* explicit call stack; every step of the model is one call, one loop      *)
(* iteration or one return of the Rust code.  main's driver is generalised *)
(* from the one hardcoded tree to every tree of a bounded size, and from   *)
(* "one pass per visitor" to a bounded number of passes (Spec) or of fresh  *)
(* instances (SpecRuns).                                                   *)
(***************************************************************************)
EXTENDS Integers, Sequences, FiniteSets, TLC

VARIABLES
  tree,     \* the root Chest built by main (immutable once built)
  visitor,  \* the current visitor instance: its type and its two counters
  stack,    \* call stack of the traversal in progress, top at the end
  log,      \* handler invocations issued by walk_things in the current pass
  pc,       \* main's position: "start", "walking", "done", "reported"
  pass,     \* number of root traversals begun on the current instance
  entry,    \* function main called on the root for the current pass
  runs,     \* number of visitor instances created so far
  results   \* values returned by value(), in call order

vars == <<tree, visitor, stack, log, pc, pass, entry, runs, results>>

(***************************************************************************)
(* Bounds of the model.                                                    *)
(***************************************************************************)
MaxNodes == 3    \* nodes below the root Chest of a generated tree (Spec)
MaxRunNodes == 2 \* nodes below the root Chest of a generated tree (SpecRuns)
MaxRuns == 3     \* visitor instances created in one behaviour of SpecRuns
MaxPasses == 2   \* root traversals run on one visitor instance

(***************************************************************************)
(* Node hierarchy: enum Thing and the structs Chest, Pile, Apple, Banana.  *)
(***************************************************************************)
Apple == [tag |-> "Apple"]
Banana == [tag |-> "Banana"]
Chest(upper, lower) ==
  [tag |-> "Chest", upper_compartment |-> upper, lower_compartment |-> lower]
Pile(surface, inside, lost) ==
  [tag |-> "Pile", surface |-> surface, inside |-> inside, lost_forever |-> lost]

\* The tree literal of main.
SampleChest ==
  Chest(<< Chest(<<Apple>>, <<Banana, Banana>>) >>,
        << Apple,
           Pile(<<Apple, Apple, Banana>>, <<Apple>>, <<Banana>>) >>)

\* Every Thing with exactly n nodes, given F[k + 1] = the sequences of Things
\* with k nodes in total, for k < n.
ThingsFrom(n, F) ==
  (IF n = 1 THEN {Apple, Banana} ELSE {})
  \cup UNION {{Chest(u, l) : u \in F[a + 1], l \in F[n - a]} : a \in 0..(n - 1)}
  \cup UNION {UNION {{Pile(s, i, l) : s \in F[a + 1], i \in F[b + 1],
                                      l \in F[n - a - b]}
                     : b \in 0..(n - 1 - a)} : a \in 0..(n - 1)}

\* Every Vec<Thing> with exactly n nodes in total.
ForestsFrom(n, T, F) ==
  UNION {{<<t>> \o f : t \in T[k], f \in F[n - k + 1]} : k \in 1..n}

RECURSIVE BuildForests(_, _, _, _)
BuildForests(n, max, T, F) ==
  IF n > max THEN F
  ELSE LET T2 == Append(T, ThingsFrom(n, F))
       IN BuildForests(n + 1, max, T2, Append(F, ForestsFrom(n, T2, F)))

\* Forests[k + 1] = every Vec<Thing> holding k nodes in total, k <= MaxNodes.
Forests == BuildForests(1, MaxNodes, <<>>, << {<<>>} >>)

(***************************************************************************)
(* References into the tree.  A path is the sequence of <<slot, index>>    *)
(* steps from the root; it plays the role of the & references the code     *)
(* passes around.                                                          *)
(***************************************************************************)
RECURSIVE NodeAt(_, _)
NodeAt(node, path) ==
  IF path = <<>> THEN node
  ELSE NodeAt(node[path[1][1]][path[1][2]], Tail(path))

\* The slice a walk_things frame iterates.
ThingsOf(f) == NodeAt(tree, f.path)[f.slot]

(***************************************************************************)
(* Visitors.                                                               *)
(***************************************************************************)
VisitorKinds == {"InventoryCounter", "OnlyCheckChests"}

NoVisitor == [kind |-> "none", apples |-> 0, bananas |-> 0]

\* Mutant: the counters live in state shared by all instances, so a new
\* instance starts from the previous instance's counts.
DefaultVisitor_shared(kind) ==
  [kind |-> kind, apples |-> visitor.apples, bananas |-> visitor.bananas]

\* #[derive(Default)]: both counters start at 0.
DefaultVisitor(kind) == [kind |-> kind, apples |-> 0, bananas |-> 0]

\* Mutant: visit_banana copied from visit_apple without renaming the field.
InventoryCounter_visit_banana_apples(v) == [v EXCEPT !.apples = @ + 1]

\* Mutant: the pruning visitor counts every apple twice.
OnlyCheckChests_visit_apple_twice(v) == [v EXCEPT !.apples = @ + 2]

\* Mutant: visit_banana copied from visit_apple without renaming the field.
OnlyCheckChests_visit_banana_apples(v) == [v EXCEPT !.apples = @ + 1]

\* self.apples += 1 / self.bananas += 1, per visitor type.
InventoryCounter_visit_apple(v) == [v EXCEPT !.apples = @ + 1]
InventoryCounter_visit_banana(v) == [v EXCEPT !.bananas = @ + 1]
OnlyCheckChests_visit_apple(v) == [v EXCEPT !.apples = @ + 1]
OnlyCheckChests_visit_banana(v) == [v EXCEPT !.bananas = @ + 1]

\* Decimal rendering of a usize, as format!("{}") produces it.
Digit(d) ==
  CASE d = 0 -> "0" [] d = 1 -> "1" [] d = 2 -> "2" [] d = 3 -> "3"
    [] d = 4 -> "4" [] d = 5 -> "5" [] d = 6 -> "6" [] d = 7 -> "7"
    [] d = 8 -> "8" [] d = 9 -> "9"

RECURSIVE Display(_)
Display(n) == IF n < 10 THEN Digit(n) ELSE Display(n \div 10) \o Digit(n % 10)

\* value(): a formatted String for InventoryCounter, a pair for OnlyCheckChests.
InventoryCounter_value(v) ==
  Display(v.apples) \o " apples and " \o Display(v.bananas) \o " bananas"
OnlyCheckChests_value(v) == <<v.apples, v.bananas>>

(***************************************************************************)
(* Bodies of the traversal functions, as the slots they pass to            *)
(* walk_things, in call order.                                             *)
(***************************************************************************)
\* Mutant: walk_chest walks the lower compartment first.
walk_chest_slots_swapped == <<"lower_compartment", "upper_compartment">>

\* Mutant: visit_chest forgets the lower compartment.
OnlyCheckChests_visit_chest_slots_upper == <<"upper_compartment">>

\* Mutant: visit_pile forgets the lost_forever slot.
InventoryCounter_visit_pile_slots_short == <<"surface", "inside">>

\* Mutant: the default visit_pile descends into the Pile.
Visitor_visit_pile_slots_descend == <<"surface", "inside", "lost_forever">>

\* Mutant: the Apple and Banana arms of the match are crossed.
HandlerFor_crossed(tag) ==
  CASE tag = "Chest" -> "visit_chest"
    [] tag = "Pile" -> "visit_pile"
    [] tag = "Apple" -> "visit_banana"
    [] tag = "Banana" -> "visit_apple"

\* Mutant: a loop that runs its body once before testing for the end, seeing
\* a default (Apple) element when the slice is empty.
IterNext_once(things, i) ==
  IF i <= Len(things) THEN things[i].tag
  ELSE IF i = 1 THEN "Apple" ELSE "None"

\* walk_chest: upper compartment, then lower compartment.
walk_chest_slots == <<"upper_compartment", "lower_compartment">>

\* OnlyCheckChests::visit_chest walks the two compartments itself.
OnlyCheckChests_visit_chest_slots == <<"upper_compartment", "lower_compartment">>

\* InventoryCounter::visit_pile walks all three slots.
InventoryCounter_visit_pile_slots == <<"surface", "inside", "lost_forever">>

\* The trait's default visit_pile has an empty body.
Visitor_visit_pile_slots == <<>>

\* The match of walk_things: the handler each variant is routed to.
HandlerFor(tag) ==
  CASE tag = "Chest" -> "visit_chest"
    [] tag = "Pile" -> "visit_pile"
    [] tag = "Apple" -> "visit_apple"
    [] tag = "Banana" -> "visit_banana"

\* The slice iterator of `for thing in things`: the variant of the element
\* produced at position i, or "None" once the slice is exhausted.
IterNext(things, i) == IF i <= Len(things) THEN things[i].tag ELSE "None"

(***************************************************************************)
(* Call stack.                                                             *)
(***************************************************************************)
Frame(fn, path, slot) == [fn |-> fn, path |-> path, slot |-> slot, pc |-> 1]

Top == stack[Len(stack)]

\* The running function calls `callee`: it moves past the call, the callee's
\* frame goes on top.
Call(callee) ==
  /\ stack' = Append([stack EXCEPT ![Len(stack)].pc = @ + 1], callee)
  /\ pc' = pc

\* The running function returns; returning from the root call gives control
\* back to main.
Return ==
  /\ stack' = SubSeq(stack, 1, Len(stack) - 1)
  /\ pc' = IF Len(stack) = 1 THEN "done" ELSE pc

Running(fn) == pc = "walking" /\ stack # <<>> /\ Top.fn = fn

\* A function whose body is a list of walk_things calls on slots of its node.
WalkSlots(slots) ==
  /\ IF Top.pc <= Len(slots)
       THEN Call(Frame("walk_things", Top.path, slots[Top.pc]))
       ELSE Return
  /\ UNCHANGED <<tree, visitor, log, pass, entry, runs, results>>

(***************************************************************************)
(* Initial state: main has built the tree, no visitor exists yet.  The     *)
(* tree is main's literal or any tree of at most max nodes below the root. *)
(***************************************************************************)
Built(max) ==
  /\ \/ tree = SampleChest
     \/ \E a \in 0..max : \E b \in 0..(max - a) :
          \E u \in Forests[a + 1], l \in Forests[b + 1] : tree = Chest(u, l)
  /\ visitor = NoVisitor
  /\ stack = <<>>
  /\ log = <<>>
  /\ pc = "start"
  /\ pass = 0
  /\ entry = "none"
  /\ runs = 0
  /\ results = <<>>

Init == Built(MaxNodes)

InitRuns == Built(MaxRunNodes)

(***************************************************************************)
(* main.                                                                   *)
(***************************************************************************)
\* let mut v = V::default();
NewVisitor(kind, limit) ==
  /\ pc \in {"start", "reported"}
  /\ runs < limit
  /\ visitor' = DefaultVisitor(kind)
  /\ runs' = runs + 1
  /\ pass' = 0
  /\ entry' = "none"
  /\ log' = <<>>
  /\ pc' = "start"
  /\ UNCHANGED <<tree, stack, results>>

\* v.visit_chest(&chest), or walk_chest(&mut v, &chest), on the root; one
\* instance is driven through one of the two for all its passes.
StartPass(fn, limit) ==
  /\ \/ pc = "start" /\ visitor.kind \in VisitorKinds
     \/ pc = "reported" /\ fn = entry
  /\ pass < limit
  /\ stack' = <<Frame(fn, <<>>, "")>>
  /\ pc' = "walking"
  /\ pass' = pass + 1
  /\ entry' = fn
  /\ log' = <<>>
  /\ UNCHANGED <<tree, visitor, runs, results>>

\* v.value()
Value ==
  /\ pc = "done"
  /\ results' = Append(results,
       [kind |-> visitor.kind, pass |-> pass, entry |-> entry,
        apples |-> visitor.apples, bananas |-> visitor.bananas,
        value |-> IF visitor.kind = "InventoryCounter"
                    THEN InventoryCounter_value(visitor)
                    ELSE OnlyCheckChests_value(visitor)])
  /\ pc' = "reported"
  /\ UNCHANGED <<tree, visitor, stack, log, pass, entry, runs>>

(***************************************************************************)
(* walk_things.                                                            *)
(***************************************************************************)
\* One loop iteration: match the next element and call its handler.
walk_things_dispatch ==
  /\ Running("walk_things")
  /\ IterNext(ThingsOf(Top), Top.pc) # "None"
  /\ LET arg == Append(Top.path, <<Top.slot, Top.pc>>)
         handler == HandlerFor(IterNext(ThingsOf(Top), Top.pc))
     IN /\ log' = Append(log, [handler |-> handler, arg |-> arg])
        /\ Call(Frame(handler, arg, ""))
  /\ UNCHANGED <<tree, visitor, pass, entry, runs, results>>

\* The iterator is exhausted: the loop ends and walk_things returns.
walk_things_return ==
  /\ Running("walk_things")
  /\ IterNext(ThingsOf(Top), Top.pc) = "None"
  /\ Return
  /\ UNCHANGED <<tree, visitor, log, pass, entry, runs, results>>

(***************************************************************************)
(* walk_chest.                                                             *)
(***************************************************************************)
walk_chest ==
  /\ Running("walk_chest")
  /\ WalkSlots(walk_chest_slots)

(***************************************************************************)
(* impl Visitor for InventoryCounter.                                      *)
(***************************************************************************)
\* visit_chest: walk_chest(self, v), then return.
InventoryCounter_visit_chest ==
  /\ Running("visit_chest")
  /\ visitor.kind = "InventoryCounter"
  /\ IF Top.pc = 1 THEN Call(Frame("walk_chest", Top.path, "")) ELSE Return
  /\ UNCHANGED <<tree, visitor, log, pass, entry, runs, results>>

InventoryCounter_visit_pile ==
  /\ Running("visit_pile")
  /\ visitor.kind = "InventoryCounter"
  /\ WalkSlots(InventoryCounter_visit_pile_slots)

InventoryCounter_apple ==
  /\ Running("visit_apple")
  /\ visitor.kind = "InventoryCounter"
  /\ visitor' = InventoryCounter_visit_apple(visitor)
  /\ Return
  /\ UNCHANGED <<tree, log, pass, entry, runs, results>>

InventoryCounter_banana ==
  /\ Running("visit_banana")
  /\ visitor.kind = "InventoryCounter"
  /\ visitor' = InventoryCounter_visit_banana(visitor)
  /\ Return
  /\ UNCHANGED <<tree, log, pass, entry, runs, results>>

(***************************************************************************)
(* impl Visitor for OnlyCheckChests; visit_pile is the trait's default.    *)
(***************************************************************************)
OnlyCheckChests_visit_chest ==
  /\ Running("visit_chest")
  /\ visitor.kind = "OnlyCheckChests"
  /\ WalkSlots(OnlyCheckChests_visit_chest_slots)

Visitor_visit_pile ==
  /\ Running("visit_pile")
  /\ visitor.kind = "OnlyCheckChests"
  /\ WalkSlots(Visitor_visit_pile_slots)

OnlyCheckChests_apple ==
  /\ Running("visit_apple")
  /\ visitor.kind = "OnlyCheckChests"
  /\ visitor' = OnlyCheckChests_visit_apple(visitor)
  /\ Return
  /\ UNCHANGED <<tree, log, pass, entry, runs, results>>

OnlyCheckChests_banana ==
  /\ Running("visit_banana")
  /\ visitor.kind = "OnlyCheckChests"
  /\ visitor' = OnlyCheckChests_visit_banana(visitor)
  /\ Return
  /\ UNCHANGED <<tree, log, pass, entry, runs, results>>

(***************************************************************************)
(* Specification.                                                          *)
(***************************************************************************)
\* One step of the traversal in progress.
Traverse ==
  \/ walk_things_dispatch
  \/ walk_things_return
  \/ walk_chest
  \/ InventoryCounter_visit_chest
  \/ InventoryCounter_visit_pile
  \/ InventoryCounter_apple
  \/ InventoryCounter_banana
  \/ OnlyCheckChests_visit_chest
  \/ Visitor_visit_pile
  \/ OnlyCheckChests_apple
  \/ OnlyCheckChests_banana

\* One visitor instance of either type, run over the tree up to MaxPasses
\* times, entering through visit_chest or walk_chest.
Next ==
  \/ \E kind \in VisitorKinds : NewVisitor(kind, 1)
  \/ \E fn \in {"visit_chest", "walk_chest"} : StartPass(fn, MaxPasses)
  \/ Value
  \/ Traverse

Spec == Init /\ [][Next]_vars

\* main's shape: up to MaxRuns fresh instances of either type, each run once
\* through visit_chest and then asked for its value.
NextRuns ==
  \/ \E kind \in VisitorKinds : NewVisitor(kind, MaxRuns)
  \/ StartPass("visit_chest", 1)
  \/ Value
  \/ Traverse

SpecRuns == InitRuns /\ [][NextRuns]_vars

TypeOK ==
  /\ pc \in {"start", "walking", "done", "reported"}
  /\ (stack # <<>>) <=> (pc = "walking")
  /\ visitor.apples >= 0 /\ visitor.bananas >= 0

(***************************************************************************)
(* Reference definitions: the tree counted by hand, without any traversal. *)
(***************************************************************************)
SlotsOf(node) ==
  CASE node.tag = "Chest" -> <<"upper_compartment", "lower_compartment">>
    [] node.tag = "Pile" -> <<"surface", "inside", "lost_forever">>
    [] OTHER -> <<>>

\* The paths of all nodes of the subtree rooted at node, relative to it.
RECURSIVE PathsOf(_)
PathsOf(node) ==
  {<<>>} \cup
  UNION {UNION {{<< <<SlotsOf(node)[s], i>> >> \o p
                  : p \in PathsOf(node[SlotsOf(node)[s]][i])}
                : i \in 1..Len(node[SlotsOf(node)[s]])}
         : s \in 1..Len(SlotsOf(node))}

TagAt(path) == NodeAt(tree, path).tag

\* Paths of all leaves of the given kind, anywhere in the tree.
LeafPaths(tag) == {p \in PathsOf(tree) : TagAt(p) = tag}

\* True iff every node strictly above path (the root included) is a Chest.
ThroughChestsOnly(path) ==
  \A j \in 0..(Len(path) - 1) : TagAt(SubSeq(path, 1, j)) = "Chest"

\* Arguments of the logged invocations of one handler, and their number.
Logged(handler) == {log[k].arg : k \in {n \in 1..Len(log) : log[n].handler = handler}}
TimesLogged(handler) == Cardinality({n \in 1..Len(log) : log[n].handler = handler})

\* Number of elements of a slice that are leaves of the given kind.
DirectLeaves(things, tag) ==
  Cardinality({k \in 1..Len(things) : things[k].tag = tag})

\* Leaves of the given kind in a slice or below it through Chests only.
RECURSIVE LeavesInChests(_, _)
LeavesInChests(things, tag) ==
  IF things = <<>> THEN 0
  ELSE LET h == Head(things)
       IN (IF h.tag = tag THEN 1
           ELSE IF h.tag = "Chest"
             THEN LeavesInChests(h.upper_compartment, tag)
                  + LeavesInChests(h.lower_compartment, tag)
             ELSE 0)
          + LeavesInChests(Tail(things), tag)

\* Leaves of the given kind inside the Chests that are direct elements of a
\* slice, at any depth below them through Chests only.
RECURSIVE LeavesInNestedChests(_, _)
LeavesInNestedChests(things, tag) ==
  IF things = <<>> THEN 0
  ELSE LET h == Head(things)
       IN (IF h.tag = "Chest"
             THEN LeavesInChests(h.upper_compartment \o h.lower_compartment, tag)
             ELSE 0)
          + LeavesInNestedChests(Tail(things), tag)

RootThings == tree.upper_compartment \o tree.lower_compartment

\* The handler the spec assigns to each variant.
MatchingHandler(tag) ==
  [Chest |-> "visit_chest", Pile |-> "visit_pile",
   Apple |-> "visit_apple", Banana |-> "visit_banana"][tag]

\* A first pass of a fresh visitor of the given type, entered through
\* visit_chest on the root, has just finished.
FirstPassDone(kind) ==
  /\ pc = "done"
  /\ visitor.kind = kind
  /\ pass = 1
  /\ entry = "visit_chest"

\* The invocations walk_things has issued for the elements of one slot.
IssuedFor(path, slot) ==
  SelectSeq(log, LAMBDA e :
    /\ Len(e.arg) = Len(path) + 1
    /\ SubSeq(e.arg, 1, Len(path)) = path
    /\ e.arg[Len(e.arg)][1] = slot)

\* The invocation the contract of walk_things requires for element k.
Due(path, slot, k) ==
  [handler |-> MatchingHandler(NodeAt(tree, path)[slot][k].tag),
   arg |-> Append(path, <<slot, k>>)]

DueFor(path, slot, n) == [k \in 1..n |-> Due(path, slot, k)]

(***************************************************************************)
(* Claims.                                                                 *)
(***************************************************************************)

\* C1: after a fresh InventoryCounter has run visit_chest on the root, apples
\* is the number of Apple nodes anywhere in the tree and bananas the number of
\* Banana nodes, and every leaf was visited exactly once.
C1_FullCounterCountsEveryLeaf ==
  FirstPassDone("InventoryCounter") =>
    /\ visitor.apples = Cardinality(LeafPaths("Apple"))
    /\ visitor.bananas = Cardinality(LeafPaths("Banana"))
    /\ Logged("visit_apple") = LeafPaths("Apple")
    /\ Logged("visit_banana") = LeafPaths("Banana")
    /\ TimesLogged("visit_apple") = Cardinality(LeafPaths("Apple"))
    /\ TimesLogged("visit_banana") = Cardinality(LeafPaths("Banana"))

\* A full count has finished on a tree with a leaf of each kind, one of them
\* an Apple directly inside a Pile below the root.
C1_Witness ==
  /\ FirstPassDone("InventoryCounter")
  /\ visitor.apples >= 1
  /\ visitor.bananas >= 1
  /\ \E p \in LeafPaths("Apple") :
       Len(p) >= 2 /\ TagAt(SubSeq(p, 1, Len(p) - 1)) = "Pile"

\* C2 as stated: the pruning visitor reports exactly the leaves that sit
\* directly in the root Chest's two compartments.
C2_PruningCountsDirectLeavesOnly ==
  FirstPassDone("OnlyCheckChests") =>
    /\ visitor.apples = DirectLeaves(RootThings, "Apple")
    /\ visitor.bananas = DirectLeaves(RootThings, "Banana")

\* C2, amended: the pruning visitor reports the leaves directly in the root's
\* compartments plus the leaves of nested Chests reached through Chests only;
\* nothing nested inside a Pile is included.
C2_PruningCountsDirectAndChestLeaves ==
  FirstPassDone("OnlyCheckChests") =>
    /\ visitor.apples = DirectLeaves(RootThings, "Apple")
                        + LeavesInNestedChests(RootThings, "Apple")
    /\ visitor.bananas = DirectLeaves(RootThings, "Banana")
                         + LeavesInNestedChests(RootThings, "Banana")

\* The pruning visitor has finished on a tree with a direct leaf, a leaf in a
\* nested Chest and a leaf in a Pile, reporting more than the direct leaves.
C2_Witness ==
  /\ FirstPassDone("OnlyCheckChests")
  /\ DirectLeaves(RootThings, "Apple") >= 1
  /\ LeavesInNestedChests(RootThings, "Apple")
       + LeavesInNestedChests(RootThings, "Banana") >= 1
  /\ \E k \in 1..Len(RootThings) :
       RootThings[k].tag = "Pile" /\ RootThings[k].surface # <<>>
  /\ visitor.apples + visitor.bananas
       > DirectLeaves(RootThings, "Apple") + DirectLeaves(RootThings, "Banana")

\* C3: on main's sample tree a fresh InventoryCounter run through visit_chest
\* finishes with 5 apples and 4 bananas, and reports them as such.
C3_SampleFullCount ==
  (tree = SampleChest /\ visitor.kind = "InventoryCounter"
     /\ pass = 1 /\ entry = "visit_chest") =>
    /\ pc = "done" => visitor.apples = 5 /\ visitor.bananas = 4
    /\ pc = "reported" =>
         results[Len(results)].value = "5 apples and 4 bananas"

C3_Witness ==
  /\ tree = SampleChest
  /\ visitor.kind = "InventoryCounter"
  /\ pass = 1
  /\ entry = "visit_chest"
  /\ pc = "reported"

\* C4: on main's sample tree a fresh OnlyCheckChests run through visit_chest
\* finishes with the pair (2, 2).
C4_SamplePrunedCount ==
  (tree = SampleChest /\ visitor.kind = "OnlyCheckChests"
     /\ pass = 1 /\ entry = "visit_chest") =>
    /\ pc = "done" => visitor.apples = 2 /\ visitor.bananas = 2
    /\ pc = "reported" => results[Len(results)].value = <<2, 2>>

C4_Witness ==
  /\ tree = SampleChest
  /\ visitor.kind = "OnlyCheckChests"
  /\ pass = 1
  /\ entry = "visit_chest"
  /\ pc = "reported"

\* C5: whenever walk_things is the running function, the invocations it has
\* issued so far are exactly the matching handlers of the elements before its
\* position, in sequence order; its step either issues the one invocation due
\* for the next element (and nothing for any child), or, with every element
\* dispatched once, returns without issuing anything.
C5_WalkThingsDispatchesEachElementOnce ==
  [][Running("walk_things") =>
       LET f == Top
           n == Len(NodeAt(tree, f.path)[f.slot])
       IN /\ f.pc <= n + 1
          /\ IssuedFor(f.path, f.slot) = DueFor(f.path, f.slot, f.pc - 1)
          /\ IF f.pc <= n
               THEN /\ log' = Append(log, Due(f.path, f.slot, f.pc))
                    /\ Len(stack') = Len(stack) + 1
                    /\ stack'[Len(stack)] = [f EXCEPT !.pc = f.pc + 1]
                    /\ stack'[Len(stack')].fn = Due(f.path, f.slot, f.pc).handler
                    /\ stack'[Len(stack')].path = Due(f.path, f.slot, f.pc).arg
               ELSE /\ log' = log
                    /\ stack' = SubSeq(stack, 1, Len(stack) - 1)]_vars

\* walk_things is about to return from a slice of at least two elements, one
\* of them a container whose children were dispatched by a deeper call.
C5_Witness ==
  /\ Running("walk_things")
  /\ Top.pc = Len(ThingsOf(Top)) + 1
  /\ Len(ThingsOf(Top)) >= 2
  /\ Len(IssuedFor(Top.path, Top.slot)) = Len(ThingsOf(Top))
  /\ \E k \in 1..Len(log) : Len(log[k].arg) > Len(Top.path) + 1

\* C6: for every walk_chest call in progress, the invocations issued for the
\* Chest's direct elements are a prefix of "all of upper in order, then all of
\* lower in order"; when walk_chest is the running function that prefix is
\* empty before the first walk, all of upper after it, and all of upper then
\* all of lower (and nothing else) when it is about to return.
C6_WalkChestUpperThenLower ==
  \A d \in 1..Len(stack) :
    stack[d].fn = "walk_chest" =>
      LET f == stack[d]
          c == NodeAt(tree, f.path)
          up == DueFor(f.path, "upper_compartment", Len(c.upper_compartment))
          lo == DueFor(f.path, "lower_compartment", Len(c.lower_compartment))
          issued == SelectSeq(log, LAMBDA e :
                      /\ Len(e.arg) = Len(f.path) + 1
                      /\ SubSeq(e.arg, 1, Len(f.path)) = f.path)
      IN /\ Len(issued) <= Len(up) + Len(lo)
         /\ issued = SubSeq(up \o lo, 1, Len(issued))
         /\ d = Len(stack) =>
              Len(issued) = CASE f.pc = 1 -> 0
                              [] f.pc = 2 -> Len(up)
                              [] OTHER -> Len(up) + Len(lo)

\* walk_chest, called with an OnlyCheckChests visitor, is about to return from
\* a Chest whose upper compartment alone is populated, having dispatched
\* exactly those elements.
C6_Witness ==
  /\ Running("walk_chest")
  /\ visitor.kind = "OnlyCheckChests"
  /\ Top.pc = 3
  /\ Len(NodeAt(tree, Top.path).upper_compartment) >= 2
  /\ NodeAt(tree, Top.path).lower_compartment = <<>>
  /\ Len(SelectSeq(log, LAMBDA e :
           /\ Len(e.arg) = Len(Top.path) + 1
           /\ SubSeq(e.arg, 1, Len(Top.path)) = Top.path))
       = Len(NodeAt(tree, Top.path).upper_compartment)

\* C7: a walk_things call on an empty slice returns at once, having invoked
\* no handler and left the visitor's counters as they were.
C7_EmptyWalkChangesNothing ==
  [][(Running("walk_things") /\ NodeAt(tree, Top.path)[Top.slot] = <<>>) =>
       /\ visitor' = visitor
       /\ log' = log
       /\ stack' = SubSeq(stack, 1, Len(stack) - 1)]_vars

\* walk_chest has just got control back from walking an empty upper
\* compartment, with counters that were already non-zero.
C7_Witness ==
  /\ Running("walk_chest")
  /\ Top.pc = 2
  /\ NodeAt(tree, Top.path).upper_compartment = <<>>
  /\ visitor.apples >= 1
  /\ visitor.bananas >= 1

\* C8: all fresh instances of one visitor type run over the tree return the
\* same value, whatever was run before them.
C8_FreshRunsAgree ==
  \A i, j \in 1..Len(results) :
    (results[i].kind = results[j].kind
       /\ results[i].pass = 1 /\ results[j].pass = 1) =>
      /\ results[i].value = results[j].value
      /\ results[i].apples = results[j].apples
      /\ results[i].bananas = results[j].bananas

\* Three fresh instances have reported, the first and third of one type with
\* the other type run in between, on a tree where the two types disagree.
C8_Witness ==
  /\ Len(results) = 3
  /\ results[1].kind = results[3].kind
  /\ results[2].kind # results[1].kind
  /\ results[1].apples + results[1].bananas
       # results[2].apples + results[2].bananas
  /\ results[1].apples + results[1].bananas >= 1
  /\ results[2].apples + results[2].bananas >= 1

\* C9: OnlyCheckChests visits exactly the nodes whose path from the root
\* passes through Chests only: no handler is invoked for anything beneath a
\* Pile, every Chest reached through Chests is descended into, the final
\* counts are the numbers of such Apple and Banana nodes, and they never
\* exceed the numbers of all Apple and Banana nodes of the tree.
C9_PruningSkipsPiles ==
  FirstPassDone("OnlyCheckChests") =>
    /\ \A k \in 1..Len(log) : ThroughChestsOnly(log[k].arg)
    /\ Logged("visit_chest") =
         {p \in LeafPaths("Chest") : p # <<>> /\ ThroughChestsOnly(p)}
    /\ visitor.apples =
         Cardinality({p \in LeafPaths("Apple") : ThroughChestsOnly(p)})
    /\ visitor.bananas =
         Cardinality({p \in LeafPaths("Banana") : ThroughChestsOnly(p)})
    /\ visitor.apples <= Cardinality(LeafPaths("Apple"))
    /\ visitor.bananas <= Cardinality(LeafPaths("Banana"))

\* The pruning visitor has finished on a tree holding a Chest with a leaf
\* inside a Pile, and a counted leaf two levels down through Chests.
C9_Witness ==
  /\ FirstPassDone("OnlyCheckChests")
  /\ \E p \in LeafPaths("Apple") \cup LeafPaths("Banana") :
       /\ Len(p) = 3
       /\ TagAt(SubSeq(p, 1, 1)) = "Pile"
       /\ TagAt(SubSeq(p, 1, 2)) = "Chest"
  /\ visitor.apples + visitor.bananas = 0

\* C10: on one visitor instance every step leaves the counters alone, except
\* that a visit_apple call adds exactly 1 to apples and a visit_banana call
\* exactly 1 to bananas; value() changes nothing; and when a second visit_chest
\* pass over the same tree ends, each counter is twice what it was after the
\* first pass.
C10_CountersAccumulate ==
  [][visitor.kind \in VisitorKinds =>
       /\ visitor'.kind = visitor.kind
       /\ visitor'.apples =
            visitor.apples + (IF Running("visit_apple") THEN 1 ELSE 0)
       /\ visitor'.bananas =
            visitor.bananas + (IF Running("visit_banana") THEN 1 ELSE 0)
       /\ (pc' = "done" /\ pass' = 2 /\ entry' = "visit_chest"
             /\ results'[1].entry = "visit_chest") =>
            /\ visitor'.apples = 2 * results'[1].apples
            /\ visitor'.bananas = 2 * results'[1].bananas]_vars

\* A second visit_chest pass on the same instance has ended with doubled,
\* non-zero counters.
C10_Witness ==
  /\ pc = "done"
  /\ pass = 2
  /\ entry = "visit_chest"
  /\ results[1].entry = "visit_chest"
  /\ results[1].apples >= 1
  /\ results[1].bananas >= 1
  /\ visitor.apples = 2 * results[1].apples

====
